---------------------------- MODULE Spec2Model ----------------------------
(***************************************************************************)
(* Model of the MAX31856 thermocouple driver (Adafruit_MAX31856/max31856.py) *)
(* as a state machine: one driver object, its construction, its two        *)
(* temperature queries and its two register primitives, talking to an SPI  *)
(* transport whose answers are the environment's choice.                    *)
(*                                                                         *)
(* Temperatures are kept as integer counts: readTempC's float is           *)
(* counts * 2^-7 and readInternalTempC's is counts * 2^-6, both exact in   *)
(* binary floating point, so "result * 128" / "result * 64" is the count.  *)
(***************************************************************************)
EXTENDS Integers, Sequences, FiniteSets, TLC

(***************************************************************************)
(* Register constants (class attributes of MAX31856).                      *)
(***************************************************************************)
MAX31856_REG_READ_CR0 == 0
MAX31856_REG_READ_CR1 == 1
MAX31856_REG_READ_LTCBL == 14
MAX31856_REG_READ_LTCBM == 13
MAX31856_REG_READ_LTCBH == 12
MAX31856_REG_READ_CJTL == 11
MAX31856_REG_READ_CJTH == 10
MAX31856_REG_WRITE_CR0 == 128
MAX31856_REG_WRITE_CR1 == 129
MAX31856_CR0_READ_ONE == 64
MAX31856_CR0_READ_CONT == 128
MAX31856_B_TYPE == 0
MAX31856_T_TYPE == 7

\* set_clock_hz(5000000), set_mode(1)
BusClockHz == 5000000
BusMode == 1

(***************************************************************************)
(* Bounds of the model.                                                    *)
(***************************************************************************)
\* averaging selectors tried at construction: 0..MaxAvgSel
MaxAvgSel == 1
\* register-level writes a run of the loopback simulation makes after construction
MaxWrites == 1

\* The bytes the transport may return for each register: for the temperature
\* registers every byte the repository's conversion test uses in that place,
\* plus the sign-only byte 0x80, the largest magnitude 0x7F, and low bytes
\* whose bits overlap those of the middle byte shifted left by 3.
ByteSamples(address) ==
  CASE address = MAX31856_REG_READ_LTCBH -> {0, 1, 127, 128, 240, 255}
    [] address = MAX31856_REG_READ_LTCBM -> {0, 1, 96, 112, 144, 240}
    [] address = MAX31856_REG_READ_LTCBL -> {0, 8, 32, 255}
    [] address = MAX31856_REG_READ_CJTH -> {0, 25, 28, 127, 128, 201, 231}
    [] address = MAX31856_REG_READ_CJTL -> {0, 100, 252}
    [] OTHER -> {0, 128, 255}
\* What the transport clocks in while the address byte is shifted out.
JunkBytes == {0, 255}
\* Values handed to _write_register by a caller of the register-level interface.
WriteValues == {0, 64, 255}
\* Register file of the chip: read addresses 0x00..0x0F.
Registers == 0..15
\* tc_type arguments: the eight MAX31856_X_TYPE codes.
TcTypes == MAX31856_B_TYPE..MAX31856_T_TYPE

(***************************************************************************)
(* Python's integer operators on the non-negative values met here.         *)
(***************************************************************************)
RECURSIVE Pow2(_)
Pow2(n) == IF n = 0 THEN 1 ELSE 2 * Pow2(n - 1)

\* x << n
Shl(x, n) == x * Pow2(n)

RECURSIVE BitAnd(_, _)
\* x & y
BitAnd(x, y) ==
  IF x = 0 \/ y = 0 THEN 0
  ELSE (IF x % 2 = 1 /\ y % 2 = 1 THEN 1 ELSE 0) + 2 * BitAnd(x \div 2, y \div 2)

RECURSIVE BitOr(_, _)
\* x | y
BitOr(x, y) ==
  IF x = 0 THEN y
  ELSE IF y = 0 THEN x
  ELSE (IF x % 2 = 1 \/ y % 2 = 1 THEN 1 ELSE 0) + 2 * BitOr(x \div 2, y \div 2)

(***************************************************************************)
(* The transport (Adafruit_GPIO.SPI device): transfer(bytes) either        *)
(* raises, returns None, or returns a list of bytes.                       *)
(***************************************************************************)
Raised == [kind |-> "raise", bytes |-> <<>>]
ReturnedNone == [kind |-> "none", bytes |-> <<>>]
Returned(bs) == [kind |-> "ok", bytes |-> bs]
NoResponse == [kind |-> "unset", bytes |-> <<>>]

\* Answers of the wrong shape: transfer raises, returns None, or returns a
\* list that is not two bytes long.
Malformed ==
  {Raised, ReturnedNone, Returned(<<>>), Returned(<<25>>), Returned(<<0, 25, 0>>)}

\* An unconstrained transport: any outcome, of any length. What it answers
\* to a write (address bit 7 set) is never looked at.
AnyResponses(req) ==
  IF req[1] >= 128
  THEN {Raised, ReturnedNone, Returned(<<>>), Returned(<<0, 0>>)}
  ELSE Malformed \cup {Returned(<<j, v>>) : j \in JunkBytes, v \in ByteSamples(req[1])}

VARIABLES
  status,     \* "unconstructed" | "constructing" | "configured" | "failed"
  args,       \* the arguments of the __init__ call, while it is the last operation
  spi,        \* self._spi: "None" | "hw" | "BitBang"
  tc_type,    \* self.tc_type
  avgsel,     \* self.avgsel
  CR1,        \* self.CR1 (-1: the attribute is not set)
  bus,        \* what set_clock_hz / set_mode / set_bit_order were called with
  op,         \* the operation running or last run
  step,       \* 0: no operation running; k: the operation awaits its k-th transfer
  call,       \* arguments of a register-level call
  log,        \* the requests the operation handed to transfer, in order
  raw,        \* what the last transfer answered
  vals,       \* the register values the running query holds in its locals
  outcome,    \* "none" | "running" | "returned" | "raised"
  err,        \* the exception raised
  result,     \* the value returned (temperatures as counts)
  transport,  \* "any": unconstrained transport; "loopback": simulated register file
  regs,       \* the loopback transport's register file
  nwrites     \* register-level writes made since construction

vars == <<status, args, spi, tc_type, avgsel, CR1, bus, op, step, call, log, raw,
          vals, outcome, err, result, transport, regs, nwrites>>

BusUnset == [clock_hz |-> 0, mode |-> -1, bit_order |-> "unset"]
BusSet == [clock_hz |-> BusClockHz, mode |-> BusMode, bit_order |-> "MSBFIRST"]
NoArgs == [spi |-> FALSE, clk |-> FALSE, cs |-> FALSE, do |-> FALSE, di |-> FALSE,
           tc_type |-> MAX31856_T_TYPE, avgsel |-> 0]
NoCall == [address |-> 0, write_value |-> 0]

\* The loopback transport: a write transfer (address bit 7 set) stores its
\* value byte, a read transfer answers with the stored byte.
LoopbackResponse(req) ==
  Returned(<<0, IF req[1] >= 128 THEN 0 ELSE regs[req[1]]>>)

Responses(req) ==
  IF transport = "loopback" THEN {LoopbackResponse(req)} ELSE AnyResponses(req)

RegsAfter(req) ==
  IF transport = "loopback" /\ req[1] >= 128
  THEN [regs EXCEPT ![req[1] - 128] = req[2]]
  ELSE regs

InitWith(t) ==
  /\ status = "unconstructed"
  /\ args = NoArgs
  /\ spi = "None"
  /\ tc_type = MAX31856_T_TYPE
  /\ avgsel = 0
  /\ CR1 = -1
  /\ bus = BusUnset
  /\ op = "none"
  /\ step = 0
  /\ call = NoCall
  /\ log = <<>>
  /\ raw = NoResponse
  /\ vals = <<>>
  /\ outcome = "none"
  /\ err = "none"
  /\ result = 0
  /\ transport = t
  /\ regs = [r \in Registers |-> 0]
  /\ nwrites = 0

Init == InitWith("any")


(***************************************************************************)
(* The register primitives.                                                *)
(***************************************************************************)
\* Mutant of _read_request: the address is sent with the write bit set.
_read_request_write_bit(address) == <<address + 128, 0>>

\* _read_register: the list handed to self._spi.transfer
_read_request(address) == <<address, 0>>

\* Mutant of _read_register: the length of the answer is not checked.
_read_register_unchecked(r) ==
  IF r.kind = "raise" THEN [err |-> "IOError", value |-> 0]
  ELSE IF r.kind = "none" THEN [err |-> "RuntimeError", value |-> 0]
  ELSE [err |-> "none", value |-> IF Len(r.bytes) >= 2 THEN r.bytes[2] ELSE 0]

\* Mutant of _read_register: the first byte of the answer is returned.
_read_register_first_byte(r) ==
  IF r.kind = "raise" THEN [err |-> "IOError", value |-> 0]
  ELSE IF r.kind = "none" \/ Len(r.bytes) # 2
       THEN [err |-> "RuntimeError", value |-> 0]
       ELSE [err |-> "none", value |-> r.bytes[1]]

\* _read_register: what the call does with the transfer's answer r
_read_register(r) ==
  IF r.kind = "raise" THEN [err |-> "IOError", value |-> 0]
  ELSE IF r.kind = "none" \/ Len(r.bytes) # 2
       THEN [err |-> "RuntimeError", value |-> 0]
       ELSE [err |-> "none", value |-> r.bytes[2]]

\* Mutant of _write_request: the dummy byte of a read is sent, not the value.
_write_request_dummy(address, write_value) == <<address, 0>>

\* _write_register: the list handed to self._spi.transfer
_write_request(address, write_value) == <<address, write_value>>

\* Mutant of _write_register: an exception of transfer is swallowed.
_write_register_swallow(r) == [err |-> "none", value |-> 1]

\* _write_register: the answer is not looked at; the call returns True
\* unless transfer raised
_write_register(r) ==
  IF r.kind = "raise" THEN [err |-> "IOError", value |-> 0]
  ELSE [err |-> "none", value |-> 1]

(***************************************************************************)
(* The arithmetic of __init__ and of the two temperature queries.          *)
(***************************************************************************)
\* Mutant of CR1_value: the fields are combined with | .
CR1_value_or(a, t) == BitOr(Shl(a, 1), t)

\* self.CR1 = ((self.avgsel << 1) + self.tc_type)
CR1_value(a, t) == Shl(a, 1) + t

\* readTempC, as counts of 2^-7 degree
readTempC_counts(val_low_byte, val_mid_byte, val_high_byte) ==
  LET temp_C == Shl(BitAnd(val_high_byte, 127), 11) + Shl(val_mid_byte, 3)
                  + val_low_byte
  IN IF BitAnd(val_high_byte, 128) # 0 THEN -temp_C ELSE temp_C

\* readInternalTempC, as counts of 2^-6 degree
readInternalTempC_counts(val_low_byte, val_high_byte) ==
  LET temp_C == Shl(BitAnd(val_high_byte, 127), 6) + val_low_byte
  IN IF BitAnd(val_high_byte, 128) # 0 THEN -temp_C ELSE temp_C

\* The registers each query reads, in the order it reads them.
readTempC_reads ==
  <<MAX31856_REG_READ_LTCBL, MAX31856_REG_READ_LTCBM, MAX31856_REG_READ_LTCBH>>

\* Mutant of readInternalTempC_reads: the high byte is read first.
readInternalTempC_reads_high_first ==
  <<MAX31856_REG_READ_CJTH, MAX31856_REG_READ_CJTL>>

readInternalTempC_reads == <<MAX31856_REG_READ_CJTL, MAX31856_REG_READ_CJTH>>

QueryReads(name) ==
  IF name = "readTempC" THEN readTempC_reads ELSE readInternalTempC_reads

QueryCounts(name, vs) ==
  IF name = "readTempC" THEN readTempC_counts(vs[1], vs[2], vs[3])
  ELSE readInternalTempC_counts(vs[1], vs[2])

(***************************************************************************)
(* Construction.                                                           *)
(***************************************************************************)
ArgSets ==
  [spi : BOOLEAN, clk : BOOLEAN, cs : BOOLEAN, do : BOOLEAN, di : BOOLEAN,
   tc_type : TcTypes, avgsel : 0..MaxAvgSel]

\* Mutant of init_branch: software SPI is chosen on the clock pin alone.
init_branch_clk_only(a) ==
  IF a.spi THEN "hardware"
  ELSE IF a.clk THEN "software"
  ELSE "invalid"

\* __init__: which SPI the arguments select
init_branch(a) ==
  IF a.spi THEN "hardware"
  ELSE IF a.clk /\ a.cs /\ a.do THEN "software"
  ELSE "invalid"

\* __init__ up to the return of its first transfer (the CR0 write), or up to
\* the exception that ends it.
__init__(a) ==
  /\ status = "unconstructed"
  /\ args' = a
  /\ tc_type' = a.tc_type
  /\ avgsel' = a.avgsel
  /\ op' = "__init__"
  /\ UNCHANGED <<call, vals, result, transport, nwrites>>
  /\ IF init_branch(a) = "hardware"
     THEN
       LET req == _write_request(MAX31856_REG_WRITE_CR0, MAX31856_CR0_READ_CONT)
       IN \E r \in Responses(req) :
            /\ spi' = "hw"
            /\ bus' = BusSet
            /\ CR1' = CR1_value(a.avgsel, a.tc_type)
            /\ log' = <<req>>
            /\ raw' = r
            /\ regs' = RegsAfter(req)
            /\ IF _write_register(r).err # "none"
               THEN /\ status' = "failed"
                    /\ step' = 0
                    /\ outcome' = "raised"
                    /\ err' = _write_register(r).err
               ELSE /\ status' = "constructing"
                    /\ step' = 2
                    /\ outcome' = "running"
                    /\ err' = "none"
     ELSE
       /\ status' = "failed"
       /\ step' = 0
       /\ outcome' = "raised"
       \* software SPI reads the local gpio before any assignment to it
       /\ err' = IF init_branch(a) = "software" THEN "UnboundLocalError"
                 ELSE "ValueError"
       /\ UNCHANGED <<spi, bus, CR1, log, raw, regs>>

\* __init__: the CR1 write and the return
__init__CR1 ==
  /\ status = "constructing"
  /\ op = "__init__"
  /\ step = 2
  /\ LET req == _write_request(MAX31856_REG_WRITE_CR1, CR1)
     IN \E r \in Responses(req) :
          /\ log' = Append(log, req)
          /\ raw' = r
          /\ regs' = RegsAfter(req)
          /\ step' = 0
          /\ IF _write_register(r).err # "none"
             THEN /\ status' = "failed"
                  /\ outcome' = "raised"
                  /\ err' = _write_register(r).err
             ELSE /\ status' = "configured"
                  /\ outcome' = "returned"
                  /\ err' = "none"
  /\ UNCHANGED <<args, spi, tc_type, avgsel, CR1, bus, op, call, vals, result,
                 transport, nwrites>>

(***************************************************************************)
(* The temperature queries: one action per register read; the last one     *)
(* computes and returns the temperature.                                   *)
(***************************************************************************)
\* The k-th register read of query name, and what the query does with it.
QueryStep(name, k) ==
  /\ LET req == _read_request(QueryReads(name)[k])
         sofar == IF k = 1 THEN <<>> ELSE vals
     IN \E r \in Responses(req) :
          LET got == _read_register(r)
              vs == Append(sofar, got.value)
          IN /\ op' = name
             /\ args' = NoArgs
             /\ call' = NoCall
             /\ log' = IF k = 1 THEN <<req>> ELSE Append(log, req)
             /\ raw' = r
             /\ regs' = RegsAfter(req)
             /\ IF got.err # "none"
                THEN /\ step' = 0
                     /\ outcome' = "raised"
                     /\ err' = got.err
                     /\ vals' = sofar
                     /\ result' = 0
                ELSE IF k < Len(QueryReads(name))
                THEN /\ step' = k + 1
                     /\ outcome' = "running"
                     /\ err' = "none"
                     /\ vals' = vs
                     /\ result' = 0
                ELSE /\ step' = 0
                     /\ outcome' = "returned"
                     /\ err' = "none"
                     /\ vals' = vs
                     /\ result' = QueryCounts(name, vs)
  /\ UNCHANGED <<status, spi, tc_type, avgsel, CR1, bus, transport, nwrites>>

\* readTempC is called and reads LTCBL
readTempC_1 ==
  /\ status = "configured"
  /\ step = 0
  /\ QueryStep("readTempC", 1)

\* readTempC reads LTCBM
readTempC_2 ==
  /\ op = "readTempC"
  /\ step = 2
  /\ QueryStep("readTempC", 2)

\* readTempC reads LTCBH, computes the temperature and returns it
readTempC_3 ==
  /\ op = "readTempC"
  /\ step = 3
  /\ QueryStep("readTempC", 3)

\* readInternalTempC is called and reads CJTL
readInternalTempC_1 ==
  /\ status = "configured"
  /\ step = 0
  /\ QueryStep("readInternalTempC", 1)

\* readInternalTempC reads CJTH, computes the temperature and returns it
readInternalTempC_2 ==
  /\ op = "readInternalTempC"
  /\ step = 2
  /\ QueryStep("readInternalTempC", 2)

(***************************************************************************)
(* The register-level interface, called directly.                          *)
(***************************************************************************)
WriteAddresses == {128 + a : a \in Registers}

read_register(address) ==
  /\ status = "configured"
  /\ step = 0
  /\ LET req == _read_request(address)
     IN \E r \in Responses(req) :
          /\ op' = "_read_register"
          /\ args' = NoArgs
          /\ call' = [address |-> address, write_value |-> 0]
          /\ log' = <<req>>
          /\ raw' = r
          /\ regs' = RegsAfter(req)
          /\ vals' = <<>>
          /\ outcome' = IF _read_register(r).err # "none" THEN "raised" ELSE "returned"
          /\ err' = _read_register(r).err
          /\ result' = _read_register(r).value
  /\ UNCHANGED <<status, spi, tc_type, avgsel, CR1, bus, step, transport, nwrites>>

\* The write count only bounds the history of the simulated register file; an
\* unconstrained transport keeps no history.
write_register(address, write_value) ==
  /\ status = "configured"
  /\ step = 0
  /\ nwrites < MaxWrites
  /\ LET req == _write_request(address, write_value)
     IN \E r \in Responses(req) :
          /\ op' = "_write_register"
          /\ args' = NoArgs
          /\ call' = [address |-> address, write_value |-> write_value]
          /\ log' = <<req>>
          /\ raw' = r
          /\ regs' = RegsAfter(req)
          /\ vals' = <<>>
          /\ outcome' = IF _write_register(r).err # "none" THEN "raised" ELSE "returned"
          /\ err' = _write_register(r).err
          /\ result' = _write_register(r).value
  /\ nwrites' = IF transport = "loopback" THEN nwrites + 1 ELSE nwrites
  /\ UNCHANGED <<status, spi, tc_type, avgsel, CR1, bus, step, transport>>

Next ==
  \/ \E a \in ArgSets : __init__(a)
  \/ __init__CR1
  \/ readTempC_1
  \/ readTempC_2
  \/ readTempC_3
  \/ readInternalTempC_1
  \/ readInternalTempC_2
  \/ \E address \in Registers : read_register(address)
  \/ \E address \in WriteAddresses, v \in WriteValues : write_register(address, v)

\* The driver against an unconstrained transport.
Spec == Init /\ [][Next]_vars

\* The driver against the simulated loopback transport.
InitLoopback == InitWith("loopback")
SpecLoopback == InitLoopback /\ [][Next]_vars

(***************************************************************************)
(* Claims.                                                                 *)
(***************************************************************************)
\* A query has returned: its locals hold every register value it read.
Returned_readTempC == op = "readTempC" /\ outcome = "returned"
Returned_readInternalTempC == op = "readInternalTempC" /\ outcome = "returned"

\* The two's-complement value of an n-bit field whose sign bit is given apart
TwosComplement(field, negative, n) ==
  IF negative THEN field - Pow2(n) ELSE field

\* C1: for every byte triple the three register reads return, readTempC
\* returns, in counts of 2^-7 degree, the two's-complement value of the
\* 19-bit field ((ltcbh & 0x7F) << 11) | (ltcbm << 3) | ltcbl.
\* vals holds the bytes in the order read: LTCBL, LTCBM, LTCBH.
C1_ThermocoupleTwosComplement ==
  Returned_readTempC =>
    LET ltcbl == vals[1]
        ltcbm == vals[2]
        ltcbh == vals[3]
        F == BitOr(BitOr(Shl(BitAnd(ltcbh, 127), 11), Shl(ltcbm, 3)), ltcbl)
    IN result = TwosComplement(F, BitAnd(ltcbh, 128) # 0, 19)

\* C2: for every byte pair the two register reads return, readInternalTempC
\* returns, in counts of 2^-6 degree, the two's-complement value of the
\* 14-bit field ((cjth & 0x7F) << 6) | cjtl.
\* vals holds the bytes in the order read: CJTL, CJTH.
C2_ColdJunctionTwosComplement ==
  Returned_readInternalTempC =>
    LET cjtl == vals[1]
        cjth == vals[2]
        F == BitOr(Shl(BitAnd(cjth, 127), 6), cjtl)
    IN result = TwosComplement(F, BitAnd(cjth, 128) # 0, 14)

\* The datasheet values of the repository's conversion test, as
\* <<byte2, byte1, byte0, counts of 1/128 degree>>.
ThermocoupleScenarios ==
  { <<1, 112, 32, 2945>>, <<1, 144, 0, 3200>>, <<0, 0, 0, 0>>,
    <<255, 240, 0, -128>>, <<240, 96, 0, -32000>> }

\* C3: readTempC maps each datasheet byte triple to the stated temperature
\* when those bytes are what LTCBH, LTCBM and LTCBL return.
C3_ThermocoupleScenarios ==
  \A sc \in ThermocoupleScenarios :
    (Returned_readTempC /\ vals = <<sc[3], sc[2], sc[1]>>) => result = sc[4]

\* The cold-junction values of the same test, as <<msb, lsb, counts of 1/64 degree>>.
ColdJunctionScenarios ==
  { <<28, 100, 1817>>, <<127, 252, 8191>>, <<25, 0, 1600>>, <<0, 0, 0>>,
    <<231, 0, -1600>>, <<201, 0, -3520>> }

\* C4: readInternalTempC maps each datasheet byte pair to the stated
\* temperature when those bytes are what CJTH and CJTL return.
C4_ColdJunctionScenarios ==
  \A sc \in ColdJunctionScenarios :
    (Returned_readInternalTempC /\ vals = <<sc[2], sc[1]>>) => result = sc[3]

\* __init__ has returned: the caller holds a configured device.
Constructed == op = "__init__" /\ outcome = "returned"

\* C5 as stated: a successful construction issues exactly the transfers
\* [0x80, 0x80] and [0x81, (avgsel << 1) | tc_type], in this order, and never
\* writes the one-shot value 0x40 to CR0.
C5_ConstructionWrites_Or ==
  Constructed =>
    /\ log = << <<MAX31856_REG_WRITE_CR0, MAX31856_CR0_READ_CONT>>,
                <<MAX31856_REG_WRITE_CR1, BitOr(Shl(avgsel, 1), tc_type)>> >>
    /\ \A i \in 1..Len(log) :
         log[i] # <<MAX31856_REG_WRITE_CR0, MAX31856_CR0_READ_ONE>>

\* C5 amended: a successful construction issues exactly the transfers
\* [0x80, 0x80] and [0x81, (avgsel << 1) + tc_type], in this order (the sum,
\* which differs from the bitwise or when tc_type and avgsel << 1 share a
\* bit), and never writes the one-shot value 0x40 to CR0.
C5_ConstructionWrites ==
  Constructed =>
    /\ log = << <<MAX31856_REG_WRITE_CR0, MAX31856_CR0_READ_CONT>>,
                <<MAX31856_REG_WRITE_CR1, 2 * avgsel + tc_type>> >>
    /\ CR1 = 2 * avgsel + tc_type
    /\ \A i \in 1..Len(log) :
         log[i] # <<MAX31856_REG_WRITE_CR0, MAX31856_CR0_READ_ONE>>

\* C5 witness: constructed with averaging selector 1 and a T-type thermocouple,
\* where the sum (9) and the bitwise or (7) differ.
C5_Witness ==
  /\ Constructed
  /\ avgsel = 1
  /\ tc_type = MAX31856_T_TYPE
  /\ log[2] = <<MAX31856_REG_WRITE_CR1, 9>>

\* A register read was answered with no list, or with a list not 2 long.
BadLength(r) == r.kind = "none" \/ (r.kind = "ok" /\ Len(r.bytes) # 2)

ReadingOps == {"_read_register", "readTempC", "readInternalTempC"}

\* C6: when the transport answers a register read with a response whose
\* length is not 2 (or with None), _read_register raises RuntimeError and
\* returns no value, and a temperature query whose read failed so ends there,
\* raising too, without returning a temperature.
C6_ProtocolViolation ==
  (op \in ReadingOps /\ BadLength(raw)) =>
    /\ outcome = "raised"
    /\ err = "RuntimeError"
    /\ step = 0
    /\ result = 0

\* C6 witness: readTempC whose third read is answered with a list of the
\* wrong length, after two bytes were read.
C6_Witness ==
  /\ op = "readTempC"
  /\ Len(log) = 3
  /\ Len(vals) = 2
  /\ raw = Returned(<<0, 25, 0>>)
  /\ outcome = "raised"

\* __init__ was called without spi
NoHandle == op = "__init__" /\ ~args.spi

InvalidConfiguration ==
  /\ status = "failed"
  /\ outcome = "raised"
  /\ err = "ValueError"
  /\ spi = "None"
  /\ bus = BusUnset
  /\ CR1 = -1
  /\ log = <<>>

\* C7 as stated: construction fails with ValueError whenever no transport
\* handle is supplied and the pin set (clk, cs, do, di) is absent or
\* incomplete; no bus parameter is set and no transfer is issued.
C7_InvalidConfiguration_FourPins ==
  (NoHandle /\ ~(args.clk /\ args.cs /\ args.do /\ args.di)) => InvalidConfiguration

\* C7 amended: construction fails with ValueError whenever no transport handle
\* is supplied and one of clk, cs, do is absent (di is not looked at); no bus
\* parameter is set and no transfer is issued.
C7_InvalidConfiguration ==
  (NoHandle /\ ~(args.clk /\ args.cs /\ args.do)) => InvalidConfiguration

\* C7 witness: construction with clk, cs and di but without do has failed.
C7_Witness ==
  /\ NoHandle
  /\ args.clk /\ args.cs /\ ~args.do /\ args.di
  /\ InvalidConfiguration

\* C8: construction in software mode (no transport handle, all four pins
\* supplied) builds the software bus, applies the bus parameters and performs
\* the configuration writes, as hardware-mode construction does; it ends
\* Configured unless a transfer raises.
C8_SoftwareConstruction ==
  (NoHandle /\ args.clk /\ args.cs /\ args.do /\ args.di) =>
    /\ spi = "BitBang"
    /\ bus = BusSet
    /\ Len(log) >= 1
    /\ (status = "failed" => err = "IOError")

\* C9: _read_register(address) issues exactly one transfer, of [address, 0x00],
\* and when the answer is 2 long returns its second byte, whatever the first.
C9_ReadRegister ==
  (op = "_read_register") =>
    /\ log = << <<call.address, 0>> >>
    /\ (raw.kind = "ok" /\ Len(raw.bytes) = 2) =>
         (outcome = "returned" /\ result = raw.bytes[2])

\* C9 witness: a read answered [0xFF, 0x80] has returned 0x80.
C9_Witness ==
  /\ op = "_read_register"
  /\ raw = Returned(<<255, 128>>)
  /\ outcome = "returned"
  /\ result = 128

\* C10, against the loopback transport: a _write_register(0x80 | a, v) directly
\* followed by _read_register(a) makes the read return v; and a read of CR0
\* (of CR1) directly after construction returns 0x80 (the CR1 value written).
C10_RoundTrip ==
  [][ /\ (/\ op = "_write_register"
          /\ outcome = "returned"
          /\ op' = "_read_register"
          /\ call'.address = call.address - 128)
        => (outcome' = "returned" /\ result' = call.write_value)
      /\ (Constructed /\ op' = "_read_register"
            /\ call'.address = MAX31856_REG_READ_CR0)
        => (outcome' = "returned" /\ result' = MAX31856_CR0_READ_CONT)
      /\ (Constructed /\ op' = "_read_register"
            /\ call'.address = MAX31856_REG_READ_CR1)
        => (outcome' = "returned" /\ result' = CR1) ]_vars

\* C10 witness: register 5, which only a register-level write sets, was
\* written 0xFF and then read back as 0xFF.
C10_Witness ==
  /\ transport = "loopback"
  /\ op = "_read_register"
  /\ call.address = 5
  /\ nwrites = 1
  /\ regs[5] = 255
  /\ outcome = "returned"
  /\ result = 255

\* C11 as stated: every cold-junction query reads CJTH (0x0A) first and CJTL
\* (0x0B) second: its first transfer is [0x0A, 0x00], its second [0x0B, 0x00].
C11_ColdJunctionOrder_HighFirst ==
  (op = "readInternalTempC") =>
    /\ Len(log) >= 1 => log[1] = <<MAX31856_REG_READ_CJTH, 0>>
    /\ Len(log) >= 2 => log[2] = <<MAX31856_REG_READ_CJTL, 0>>

\* C11 amended: every cold-junction query reads the LSB register CJTL (0x0B)
\* first and the MSB register CJTH (0x0A) second: its first transfer is
\* [0x0B, 0x00], its second, when the first read succeeded, [0x0A, 0x00].
C11_ColdJunctionOrder ==
  (op = "readInternalTempC") =>
    /\ Len(log) \in 1..2
    /\ log[1] = <<MAX31856_REG_READ_CJTL, 0>>
    /\ Len(log) = 2 => log[2] = <<MAX31856_REG_READ_CJTH, 0>>
    /\ outcome = "returned" => Len(log) = 2

\* C11 witness: a cold-junction query has returned after both reads, the
\* low byte 0x64 read before the high byte 0x1C.
C11_Witness ==
  /\ Returned_readInternalTempC
  /\ Len(log) = 2
  /\ vals = <<100, 28>>

QueryOps == {"readTempC", "readInternalTempC"}

\* Each register call made so far in the operation has invoked transfer once:
\* the transfers logged are as many as the calls made.
OneTransferPerCall ==
  /\ op \in {"_read_register", "_write_register"} => Len(log) = 1
  /\ op \in QueryOps =>
       Len(log) = Len(vals) + (IF outcome = "raised" THEN 1 ELSE 0)
  /\ (op = "__init__" /\ status = "constructing") => Len(log) = 1
  /\ Constructed => Len(log) = 2
  /\ (op = "__init__" /\ err = "IOError") => Len(log) \in 1..2

\* A transfer that raised ends the call and the enclosing operation with that
\* error; a failed construction yields no configured device.
FailurePropagates ==
  raw = Raised =>
    /\ outcome = "raised"
    /\ err = "IOError"
    /\ step = 0
    /\ op = "__init__" => status = "failed"

\* C12: the driver never retries and never swallows a transport error: every
\* register call invokes transfer exactly once; when the transfer raises, the
\* call and the enclosing operation fail with the error and the operation
\* issues no further transfer (the next transfer, if any, is the first of a new
\* operation on a device that was configured); a construction whose CR0 or CR1
\* write fails never yields a configured device.
C12_NoRetryNoSwallow ==
  [][ /\ OneTransferPerCall'
      /\ FailurePropagates'
      /\ outcome = "raised" => (status = "configured" /\ Len(log') = 1)
      /\ status = "failed" => status' = "failed" ]_vars

\* C12 witness: construction whose CR1 write raised, after the CR0 write went
\* through, has failed.
C12_Witness ==
  /\ op = "__init__"
  /\ Len(log) = 2
  /\ raw = Raised
  /\ status = "failed"
  /\ err = "IOError"

\* The registers of each query, as a set of addresses.
QueryAddresses(name) ==
  IF name = "readTempC" THEN {12, 13, 14} ELSE {10, 11}

\* sign and magnitude of a reading, from the bytes in the order they were read
\* (low byte first): the fixed function of a query's own bytes that it returns
SignMagnitude(name, bs) ==
  LET high == bs[Len(bs)]
      magnitude == IF name = "readTempC"
                   THEN (high % 128) * 2048 + bs[2] * 8 + bs[1]
                   ELSE (high % 128) * 64 + bs[1]
  IN IF high >= 128 THEN -magnitude ELSE magnitude

\* What a temperature query has put on the bus and made of the answers.
QueryReadsOnly ==
  op \in QueryOps =>
    /\ \A i \in 1..Len(log) :
         /\ Len(log[i]) = 2
         /\ log[i][2] = 0
         /\ log[i][1] < 128
         /\ log[i][1] \in QueryAddresses(op)
    /\ \A i, j \in 1..Len(log) : i # j => log[i][1] # log[j][1]
    /\ outcome = "returned" =>
         /\ Len(log) = Cardinality(QueryAddresses(op))
         /\ {log[i][1] : i \in 1..Len(log)} = QueryAddresses(op)
         /\ Len(vals) = Len(log)
         /\ result = SignMagnitude(op, vals)
    /\ (outcome # "raised" /\ Len(vals) >= 1) => vals[Len(vals)] = raw.bytes[2]

\* C13: after construction, temperature queries issue read transfers only: a
\* cold-junction query that returns has issued exactly two reads (0x0A and
\* 0x0B), a thermocouple query exactly three (0x0C, 0x0D, 0x0E), each with
\* dummy byte 0x00 and none with the write bit 0x80 (a query that fails issues
\* a prefix of them); no step of a query changes the handle's thermocouple
\* type, averaging selector, stored CR1 value, transport or bus parameters;
\* and the value returned is a fixed function of the bytes returned to that
\* query.
C13_QueriesReadOnly ==
  [][ op' \in QueryOps =>
        /\ QueryReadsOnly'
        /\ status = "configured" /\ status' = "configured"
        /\ tc_type' = tc_type
        /\ avgsel' = avgsel
        /\ CR1' = CR1
        /\ spi' = spi
        /\ bus' = bus ]_vars

\* C13 witness: on a K-type device with averaging selector 1, a thermocouple
\* query has returned after its three reads.
C13_Witness ==
  /\ Returned_readTempC
  /\ Len(log) = 3
  /\ vals = <<32, 112, 1>>
  /\ result = 2976
  /\ tc_type = 3
  /\ avgsel = 1
  /\ CR1 = 5

=============================================================================
